---- MODULE Spec2Model ----
(***************************************************************************)
(* A model of plex-poster-exporter.py: Plex.getPath, Plex.download and the *)
(* traversal loop of main, run against a catalog, a local filesystem and a *)
(* local clock.                                                            *)
(*                                                                         *)
(* A path string is a sequence of atoms.  The separator "/" and the        *)
(* extension dot "." are atoms of their own, since they are the only       *)
(* characters os.path inspects; every other atom is an opaque run of       *)
(* characters holding neither.                                             *)
(* A reference (thumb, art, banner, theme) is a string: "NoAttr" when the  *)
(* object has no such attribute, "None" for Python's None, "" for the      *)
(* empty string, anything else a URL.  A timestamp (updatedAt) is a number *)
(* of seconds, NoneTs for None, NoAttrTs when the attribute is missing.    *)
(***************************************************************************)
EXTENDS Integers, Sequences, FiniteSets, TLC

VARIABLES
    library,      \* the server-side library section: [type, items]
    assets,       \* --assets
    force,        \* --force (Plex.force)
    output_path,  \* --output-path (Plex.output_path)
    files,        \* local filesystem: regular files, path -> mtime
    dirs,         \* local filesystem: directories
    now,          \* local clock, seconds
    downloaded,   \* Plex.downloaded
    skipped,      \* Plex.skipped
    run,          \* "first" or "second" invocation of the program
    idx,          \* position of main's for loop in items (1-based)
    phase,        \* "reload", "path", "assets", "done"
    todo,         \* the download call sites of the current item still ahead
    transfers,    \* history: invocations of plexapi.utils.download in this run
    log,          \* history: this run's download() calls that got past `if not url`
    outcomeOf,    \* history: how each item of this run ended, "-" before
    faults,       \* environment failures injected so far
    firstFaults,  \* faults of the first run, once it is over
    firstClock,   \* the local clock when the first run started
    upstreamChanged, \* the catalog changed between the runs
    plan          \* per item of library: the value of getPath and of ItemSlots

vars == <<library, assets, force, output_path, files, dirs, now, downloaded,
          skipped, run, idx, phase, todo, transfers, log, outcomeOf, faults,
          firstFaults, firstClock, upstreamChanged, plan>>

\* ---------------------------------------------------------------- bounds
MaxFaults == 1
MaxClock == 1

\* the "1 minute buffer for clock drift"
Tolerance == 60

NoneTs == 0 - 1
NoAttrTs == 0 - 2

\* ------------------------------------------------------- Python helpers
\* a test for None in place of truthiness: '' passes
TruthyNotNone(v) == v # "None"

\* truthiness of a reference: `not url`, `item.thumb`
Truthy(v) == v # "None" /\ v # ""

\* hasattr(obj, name) on a reference / on updatedAt
HasAttr(v) == v # "NoAttr"
HasAttrTs(t) == t # NoAttrTs

\* the concatenation of a sequence of sequences: what nested for loops visit
RECURSIVE Flatten(_)
Flatten(ss) == IF ss = <<>> THEN <<>> ELSE Head(ss) \o Flatten(Tail(ss))

\* str.rfind, 1-based, 0 when absent
rfind(p, c) ==
    LET hits == {i \in 1..Len(p) : p[i] = c}
    IN  IF hits = {} THEN 0 ELSE CHOOSE i \in hits : \A j \in hits : j <= i

\* str.rstrip('/')
rstrip(p) ==
    LET keep == {i \in 1..Len(p) : p[i] # "/"}
    IN  IF keep = {} THEN <<>>
        ELSE SubSeq(p, 1, CHOOSE i \in keep : \A j \in keep : j <= i)

\* str.lstrip('/')
lstrip(p) ==
    LET keep == {i \in 1..Len(p) : p[i] # "/"}
    IN  IF keep = {} THEN <<>>
        ELSE SubSeq(p, CHOOSE i \in keep : \A j \in keep : i <= j, Len(p))

\* os.path.dirname (posixpath)
dirname(p) ==
    LET head == SubSeq(p, 1, rfind(p, "/"))
    IN  IF head # <<>> /\ (\E k \in 1..Len(head) : head[k] # "/")
        THEN rstrip(head) ELSE head

\* os.path.basename (posixpath)
basename(p) == SubSeq(p, rfind(p, "/") + 1, Len(p))

\* os.path.splitext(p)[0] (genericpath._splitext)
splitextRoot(p) ==
    LET sepIndex == rfind(p, "/")
        dotIndex == rfind(p, ".")
    IN  IF dotIndex > sepIndex
           /\ \E k \in (sepIndex + 1)..(dotIndex - 1) : p[k] # "."
        THEN SubSeq(p, 1, dotIndex - 1) ELSE p

\* os.path.join(a, b) (posixpath)
join(a, b) ==
    IF b # <<>> /\ b[1] = "/" THEN b
    ELSE IF a = <<>> \/ a[Len(a)] = "/" THEN a \o b
    ELSE a \o <<"/">> \o b

\* the directories os.makedirs(p) leaves behind: p and its ancestors, which
\* are the dirnames of the prefixes of p
Ancestors(p) == {p} \cup {dirname(SubSeq(p, 1, i)) : i \in 1..Len(p)}

\* ------------------------------------------------------------ the catalog
\* an optional path: getPath returns a directory or None
NoPath == [isNone |-> TRUE, val |-> <<>>]
SomePath(p) == [isNone |-> FALSE, val |-> p]

AlphaFile == <<"/", "media", "/", "Movies", "/", "alpha", ".", "mkv">>
AlphaFile2 == <<"/", "media", "/", "Movies", "/", "alpha-cd2", ".", "mkv">>
BetaFile == <<"/", "media", "/", "Movies", "/", "beta", ".", "mkv">>
DeltaFile == <<"/", "media", "/", "Delta", "/", "delta", ".", "mkv">>

Ep1File == <<"/", "media", "/", "Show", "/", "Season 01", "/", "Show - S01E01", ".", "mkv">>
Ep1File2 == <<"/", "media", "/", "Show", "/", "Season 01", "/", "Show - S01E01 - pt2", ".", "mkv">>
Ep1File4k == <<"/", "media", "/", "Show", "/", "Season 01", "/", "Show - S01E01 - 4k", ".", "mkv">>
Ep2File == <<"/", "media", "/", "Show", "/", "Season 01", "/", "Show - S01E02", ".", "mkv">>
OtherFile == <<"/", "media", "/", "Other", "/", "Season 01", "/", "ep", ".", "mkv">>

Movie(title, thumb, art, theme, updatedAt, media) ==
    [title |-> title, thumb |-> thumb, art |-> art, banner |-> "NoAttr",
     theme |-> theme, updatedAt |-> updatedAt, media |-> media,
     seasons |-> <<>>]

Show(title, thumb, art, banner, theme, updatedAt, seasons) ==
    [title |-> title, thumb |-> thumb, art |-> art, banner |-> banner,
     theme |-> theme, updatedAt |-> updatedAt, media |-> <<>>,
     seasons |-> seasons]

Season(thumb, updatedAt, episodes) ==
    [thumb |-> thumb, updatedAt |-> updatedAt, episodes |-> episodes]

Episode(thumb, updatedAt, media) ==
    [thumb |-> thumb, updatedAt |-> updatedAt, media |-> media]

MovieLibrary ==
    [type |-> "movie",
     items |-> <<
        Movie("Alpha", "/library/metadata/1/thumb", "/library/metadata/1/art",
              "/library/metadata/1/theme", 60, << <<AlphaFile, AlphaFile2>> >>),
        Movie("Beta", "/library/metadata/2/thumb", "", "None",
              61, << <<>>, <<BetaFile>> >>),
        Movie("Gamma", "/library/metadata/3/thumb", "None", "None", 60, <<>>),
        Movie("Delta", "/library/metadata/4/thumb", "None", "",
              NoneTs, << <<DeltaFile>> >>)
     >>]

ShowLibrary ==
    [type |-> "show",
     items |-> <<
        Show("Show", "/library/metadata/5/thumb", "", "/library/metadata/5/banner",
             "None", 60,
             << Season("/library/metadata/6/thumb", NoneTs,
                       << Episode("/library/metadata/7/thumb", 61,
                                  << <<Ep1File, Ep1File2>>, <<Ep1File4k>> >>),
                          Episode("", NoAttrTs, << <<Ep2File>> >>) >>),
                Season("/library/metadata/8/thumb", 60, <<>>) >>),
        Show("Other", "/library/metadata/9/thumb", "None", "None", "None", 0,
             << Season("None", NoAttrTs,
                       << Episode("/library/metadata/11/thumb", NoAttrTs, <<>>),
                          Episode("/library/metadata/10/thumb", NoAttrTs,
                                  << <<OtherFile>> >>) >>) >>)
     >>]

Libraries == {MovieLibrary, ShowLibrary}
AssetChoices == {"all", "posters", "backgrounds", "banners", "themes"}
OutputPaths == {<<"/">>, <<"/", "backup">>}

\* the directories of the media files, which exist on the machine
RECURSIVE MediaDirs(_)
MediaDirs(fs) ==
    IF fs = <<>> THEN {} ELSE Ancestors(dirname(Head(fs))) \cup MediaDirs(Tail(fs))

\* ------------------------------------------------------------ Plex.getPath
\* item.episodes() of a show (all its seasons' episodes) or of a season
Episodes(node) ==
    IF "seasons" \in DOMAIN node
    THEN Flatten([s \in 1..Len(node.seasons) |-> node.seasons[s].episodes])
    ELSE node.episodes

\* every part.file in the order the nested for loops visit them
MovieParts(item) == Flatten(item.media)
ShowParts(node) ==
    LET eps == Episodes(node)
    IN  Flatten([e \in 1..Len(eps) |-> Flatten(eps[e].media)])

\* the season flag ignored: one level up in both cases
getPathOneLevel(libtype, item, season) ==
    IF libtype = "movie"
    THEN IF MovieParts(item) = <<>> THEN NoPath
         ELSE SomePath(dirname(MovieParts(item)[1]))
    ELSE IF libtype = "show"
    THEN IF ShowParts(item) = <<>> THEN NoPath
         ELSE SomePath(dirname(ShowParts(item)[1]))
    ELSE NoPath

getPath(libtype, item, season) ==
    IF libtype = "movie"
    THEN IF MovieParts(item) = <<>> THEN NoPath
         ELSE SomePath(dirname(MovieParts(item)[1]))
    ELSE IF libtype = "show"
    THEN IF ShowParts(item) = <<>> THEN NoPath
         ELSE IF season THEN SomePath(dirname(ShowParts(item)[1]))
         ELSE SomePath(dirname(dirname(ShowParts(item)[1])))
    ELSE NoPath

\* `if season_path:`
TruthyPath(p) == ~p.isNone /\ p.val # <<>>

\* ------------------------------------------------- main: the call sites
\* the guard without its test of --assets
MainGuardAnyKind(a, kind, ref) == HasAttr(ref) /\ Truthy(ref)

\* `(assets == 'all' or assets == kind) and hasattr(node, attr) and node.attr`
MainGuard(a, kind, ref) == (a = "all" \/ a = kind) /\ HasAttr(ref) /\ Truthy(ref)

Slot(node, kind, ref, filename, path, ts) ==
    [node |-> node, kind |-> kind, ref |-> ref, filename |-> filename,
     path |-> path, ts |-> ts]

\* the first part of every media that has one (the `break` leaves the loop
\* over media.parts only)
ThumbParts(episode) ==
    LET withParts == SelectSeq(episode.media, LAMBDA m : m # <<>>)
    IN  [m \in 1..Len(withParts) |-> withParts[m][1]]

EpisodeSlots(a, s, e, episode, season_updated) ==
    LET episode_updated == IF HasAttrTs(episode.updatedAt)
                           THEN episode.updatedAt ELSE season_updated
        parts == ThumbParts(episode)
    IN  IF MainGuard(a, "posters", episode.thumb)
        THEN [k \in 1..Len(parts) |->
                Slot(<<s, e>>, "posters", episode.thumb,
                     splitextRoot(basename(parts[k])) \o <<"-thumb", ".", "jpg">>,
                     dirname(parts[k]), episode_updated)]
        ELSE << Slot(<<s, e>>, "posters", episode.thumb, <<>>, <<>>,
                     episode_updated) >>

SeasonSlots(libtype, a, s, season, item_updated) ==
    LET season_path == getPath(libtype, season, TRUE)
        season_updated == IF HasAttrTs(season.updatedAt)
                          THEN season.updatedAt ELSE item_updated
    IN  IF TruthyPath(season_path)
        THEN << Slot(<<s, 0>>, "posters", season.thumb, <<"folder", ".", "jpg">>,
                     season_path.val, season_updated) >>
             \o Flatten([e \in 1..Len(season.episodes) |->
                            EpisodeSlots(a, s, e, season.episodes[e], season_updated)])
        ELSE <<>>

ItemSlots(libtype, a, item) ==
    LET path == getPath(libtype, item, FALSE).val
        item_updated == item.updatedAt
        own == << Slot(<<0, 0>>, "posters", item.thumb,
                       <<"poster", ".", "jpg">>, path, item_updated),
                  Slot(<<0, 0>>, "backgrounds", item.art,
                       <<"fanart", ".", "jpg">>, path, item_updated),
                  Slot(<<0, 0>>, "banners", item.banner,
                       <<"banner", ".", "jpg">>, path, item_updated),
                  Slot(<<0, 0>>, "themes", item.theme,
                       <<"theme", ".", "mp3">>, path, item_updated) >>
        raw == IF libtype = "show"
               THEN own \o Flatten([s \in 1..Len(item.seasons) |->
                          SeasonSlots(libtype, a, s, item.seasons[s], item_updated)])
               ELSE own
    IN  [k \in 1..Len(raw) |-> [site |-> k] @@ raw[k]]

\* ---------------------------------------------------------- Plex.download
\* the path joined as it is, its leading separator kept
AbsPathNoStrip(out, path) ==
    IF out = <<"/">> THEN path ELSE join(out, path)

AbsPath(out, path) ==
    IF out = <<"/">> THEN path ELSE join(out, lstrip(path))

FinalFilePath(out, path, filename) == join(AbsPath(out, path), filename)

\* the buffer left out of the comparison
ShouldDownloadNoTolerance(isfile, local_mtime, frc, source_updated_at) ==
    IF isfile
    THEN IF frc THEN TRUE
         ELSE IF source_updated_at # NoneTs
         THEN source_updated_at > local_mtime
         ELSE FALSE
    ELSE TRUE

\* >= in place of >
ShouldDownloadInclusive(isfile, local_mtime, frc, source_updated_at) ==
    IF isfile
    THEN IF frc THEN TRUE
         ELSE IF source_updated_at # NoneTs
         THEN source_updated_at >= local_mtime + Tolerance
         ELSE FALSE
    ELSE TRUE

\* the missing timestamp tested before the existence of the file
ShouldDownloadNeedsTimestamp(isfile, local_mtime, frc, source_updated_at) ==
    IF frc THEN TRUE
    ELSE IF source_updated_at = NoneTs THEN FALSE
    ELSE IF isfile THEN source_updated_at > local_mtime + Tolerance
    ELSE TRUE

\* the timestamp tested before the force flag
ShouldDownloadTimestampFirst(isfile, local_mtime, frc, source_updated_at) ==
    IF isfile
    THEN IF source_updated_at # NoneTs
         THEN source_updated_at > local_mtime + Tolerance
         ELSE frc
    ELSE TRUE

\* a missing timestamp taken as stale
ShouldDownloadUnknownStale(isfile, local_mtime, frc, source_updated_at) ==
    IF isfile
    THEN IF frc THEN TRUE
         ELSE IF source_updated_at # NoneTs
         THEN source_updated_at > local_mtime + Tolerance
         ELSE TRUE
    ELSE TRUE

\* the SMART SYNC LOGIC
ShouldDownload(isfile, local_mtime, frc, source_updated_at) ==
    IF isfile
    THEN IF frc THEN TRUE
         ELSE IF source_updated_at # NoneTs
         THEN source_updated_at > local_mtime + Tolerance
         ELSE FALSE
    ELSE TRUE

\* the call main makes at a site: guarded by main, then by `if not url`
Called(s) == MainGuard(assets, s.kind, s.ref) /\ Truthy(s.ref)

\* os.path.isfile(final_file_path), os.path.getmtime(final_file_path)
IsFile(final_file_path) == final_file_path \in DOMAIN files

\* the modification time never read: every file as old as the epoch
LocalMtimeEpoch(final_file_path) ==
    IF IsFile(final_file_path) THEN 0 ELSE NoneTs

LocalMtime(final_file_path) ==
    IF IsFile(final_file_path) THEN files[final_file_path] ELSE NoneTs

\* the decision taken as if --force were never given
DecisionUnforced(final_file_path, source_updated_at) ==
    ShouldDownload(IsFile(final_file_path), LocalMtime(final_file_path), FALSE,
                   source_updated_at)

Decision(final_file_path, source_updated_at) ==
    ShouldDownload(IsFile(final_file_path), LocalMtime(final_file_path), force,
                   source_updated_at)

\* os.makedirs behind `if not os.path.exists(abs_path)`, its failure swallowed
DirsAfterMakedirs(abs_path, mk) ==
    IF abs_path \notin dirs /\ mk THEN dirs \cup Ancestors(abs_path) ELSE dirs

\* makedirs can fail only when it is called
MkdirChoice(abs_path, mk) == mk \/ (abs_path \notin dirs /\ faults < MaxFaults)

\* what a call of download did: mkfailed when os.makedirs raised, written the
\* time the file was written at (NoneTs when it was not)
Entry(s, final_file_path, outcome, mk, written) ==
    [item |-> idx, site |-> s.site, node |-> s.node, file |-> final_file_path,
     ref |-> s.ref, existed |-> IsFile(final_file_path),
     mtime |-> LocalMtime(final_file_path), ts |-> s.ts, outcome |-> outcome,
     mkfailed |-> ~mk, written |-> written]

\* main moves on: to the next call site of the item, or to the next item
Advance(rest) ==
    /\ todo' = rest
    /\ IF rest = <<>>
       THEN /\ idx' = idx + 1
            /\ phase' = "reload"
            /\ outcomeOf' = [outcomeOf EXCEPT ![idx] = "ok"]
       ELSE /\ idx' = idx
            /\ phase' = "assets"
            /\ outcomeOf' = outcomeOf

AtSite == phase = "assets" /\ todo # <<>>

Config == <<library, assets, force, output_path, run, firstFaults, firstClock,
            upstreamChanged, plan>>

\* main's guard is false (or url is empty): nothing is called, nothing happens
NoCall ==
    /\ AtSite
    /\ ~Called(Head(todo))
    /\ Advance(Tail(todo))
    /\ UNCHANGED <<Config, files, dirs, now, downloaded, skipped, transfers,
                   log, faults>>

\* should_download is False: SKIPPED (Current)
SkipCurrent(mk) ==
    /\ AtSite
    /\ \E s \in {Head(todo)} :
       \E abs_path \in {AbsPath(output_path, s.path)} :
       \E final_file_path \in {join(abs_path, s.filename)} :
        /\ Called(s)
        /\ MkdirChoice(abs_path, mk)
        /\ ~Decision(final_file_path, s.ts)
        /\ skipped' = skipped + 1
        /\ dirs' = DirsAfterMakedirs(abs_path, mk)
        /\ faults' = IF mk THEN faults ELSE faults + 1
        /\ log' = Append(log, Entry(s, final_file_path, "skipped", mk, NoneTs))
    /\ Advance(Tail(todo))
    /\ UNCHANGED <<Config, files, now, downloaded, transfers>>

\* os.makedirs without its try: its failure leaves download and is caught by
\* main, which gives up the item
TransferOkMakedirsRaises(mk, t) ==
    /\ AtSite
    /\ \E s \in {Head(todo)} :
       \E abs_path \in {AbsPath(output_path, s.path)} :
       \E final_file_path \in {join(abs_path, s.filename)} :
        /\ Called(s)
        /\ MkdirChoice(abs_path, mk)
        /\ Decision(final_file_path, s.ts)
        /\ t >= now /\ t <= MaxClock
        /\ IF mk
           THEN /\ now' = t
                /\ files' = (final_file_path :> t) @@ files
                /\ dirs' = dirs \cup Ancestors(abs_path)
                /\ downloaded' = downloaded + 1
                /\ transfers' = transfers + 1
                /\ faults' = faults
                /\ log' = Append(log, Entry(s, final_file_path, "downloaded", mk, t))
                /\ Advance(Tail(todo))
           ELSE /\ t = now
                /\ faults' = faults + 1
                /\ log' = Append(log, Entry(s, final_file_path, "aborted", mk, NoneTs))
                /\ idx' = idx + 1
                /\ phase' = "reload"
                /\ todo' = <<>>
                /\ outcomeOf' = [outcomeOf EXCEPT ![idx] = "error"]
                /\ UNCHANGED <<now, files, dirs, downloaded, transfers>>
    /\ UNCHANGED <<Config, skipped>>

\* plexapi.utils.download returns a true value: the file is written at time t
TransferOk(mk, t) ==
    /\ AtSite
    /\ \E s \in {Head(todo)} :
       \E abs_path \in {AbsPath(output_path, s.path)} :
       \E final_file_path \in {join(abs_path, s.filename)} :
        /\ Called(s)
        /\ MkdirChoice(abs_path, mk)
        /\ Decision(final_file_path, s.ts)
        /\ t >= now /\ t <= MaxClock
        /\ now' = t
        /\ files' = (final_file_path :> t) @@ files
        /\ dirs' = dirs \cup Ancestors(abs_path)
        /\ downloaded' = downloaded + 1
        /\ transfers' = transfers + 1
        /\ faults' = IF mk THEN faults ELSE faults + 1
        /\ log' = Append(log, Entry(s, final_file_path, "downloaded", mk, t))
    /\ Advance(Tail(todo))
    /\ UNCHANGED <<Config, skipped>>

\* a failed transfer counted as a download
TransferFailureCounted(mk) ==
    /\ AtSite
    /\ \E s \in {Head(todo)} :
       \E abs_path \in {AbsPath(output_path, s.path)} :
       \E final_file_path \in {join(abs_path, s.filename)} :
        /\ Called(s)
        /\ MkdirChoice(abs_path, mk)
        /\ Decision(final_file_path, s.ts)
        /\ faults + (IF mk THEN 1 ELSE 2) <= MaxFaults
        /\ faults' = faults + (IF mk THEN 1 ELSE 2)
        /\ dirs' = DirsAfterMakedirs(abs_path, mk)
        /\ transfers' = transfers + 1
        /\ downloaded' = downloaded + 1
        /\ log' = Append(log, Entry(s, final_file_path, "failed", mk, NoneTs))
    /\ Advance(Tail(todo))
    /\ UNCHANGED <<Config, files, now, skipped>>

\* the three ways the transfer fails; each prints its own message, changes
\* nothing else and is swallowed
TransferFailure(mk) ==
    /\ AtSite
    /\ \E s \in {Head(todo)} :
       \E abs_path \in {AbsPath(output_path, s.path)} :
       \E final_file_path \in {join(abs_path, s.filename)} :
        /\ Called(s)
        /\ MkdirChoice(abs_path, mk)
        /\ Decision(final_file_path, s.ts)
        /\ faults + (IF mk THEN 1 ELSE 2) <= MaxFaults
        /\ faults' = faults + (IF mk THEN 1 ELSE 2)
        /\ dirs' = DirsAfterMakedirs(abs_path, mk)
        /\ transfers' = transfers + 1
        /\ log' = Append(log, Entry(s, final_file_path, "failed", mk, NoneTs))
    /\ Advance(Tail(todo))
    /\ UNCHANGED <<Config, files, now, downloaded, skipped>>

\* without the `except Exception` of download, the error reaches main's
TransferErrorUncaught(mk) ==
    /\ AtSite
    /\ \E s \in {Head(todo)} :
       \E abs_path \in {AbsPath(output_path, s.path)} :
       \E final_file_path \in {join(abs_path, s.filename)} :
        /\ Called(s)
        /\ MkdirChoice(abs_path, mk)
        /\ Decision(final_file_path, s.ts)
        /\ faults + (IF mk THEN 1 ELSE 2) <= MaxFaults
        /\ faults' = faults + (IF mk THEN 1 ELSE 2)
        /\ dirs' = DirsAfterMakedirs(abs_path, mk)
        /\ transfers' = transfers + 1
        /\ log' = Append(log, Entry(s, final_file_path, "failed", mk, NoneTs))
    /\ idx' = idx + 1
    /\ phase' = "reload"
    /\ todo' = <<>>
    /\ outcomeOf' = [outcomeOf EXCEPT ![idx] = "error"]
    /\ UNCHANGED <<Config, files, now, downloaded, skipped>>

\* a false return: DOWNLOAD FAILED (Generic)
TransferFalse(mk) == TransferFailure(mk)
\* `except NotFound`: NOT FOUND (404)
TransferNotFound(mk) == TransferFailure(mk)
\* `except Exception`
TransferError(mk) == TransferFailure(mk)

\* ------------------------------------------------------------------ main
Items == library.items

\* item.reload() succeeds
ReloadOk ==
    /\ phase = "reload" /\ idx <= Len(Items)
    /\ phase' = "path"
    /\ outcomeOf' = [outcomeOf EXCEPT ![idx] = "entered"]
    /\ UNCHANGED <<Config, files, dirs, now, downloaded, skipped, idx, todo,
                   transfers, log, faults>>

\* the failure swallowed without the `continue`: main goes on with the item
ReloadFailsFallsThrough ==
    /\ phase = "reload" /\ idx <= Len(Items)
    /\ faults < MaxFaults
    /\ faults' = faults + 1
    /\ phase' = "path"
    /\ outcomeOf' = [outcomeOf EXCEPT ![idx] = "reload_failed"]
    /\ UNCHANGED <<Config, files, dirs, now, downloaded, skipped, idx, todo,
                   transfers, log>>

\* item.reload() raises: `continue`
ReloadFails ==
    /\ phase = "reload" /\ idx <= Len(Items)
    /\ faults < MaxFaults
    /\ faults' = faults + 1
    /\ idx' = idx + 1
    /\ outcomeOf' = [outcomeOf EXCEPT ![idx] = "reload_failed"]
    /\ UNCHANGED <<Config, files, dirs, now, downloaded, skipped, phase, todo,
                   transfers, log>>

\* what main computes for an item once it is reloaded: the item's path and,
\* unless that is None, the call sites in the order main reaches them
Resolved(libtype, a, item) ==
    [isNone |-> getPath(libtype, item, FALSE).isNone,
     slots |-> IF getPath(libtype, item, FALSE).isNone THEN <<>>
               ELSE ItemSlots(libtype, a, item)]

Plan(lib, a) == [i \in 1..Len(lib.items) |-> Resolved(lib.type, a, lib.items[i])]

\* path = plex.getPath(item); `if path is None: continue`
ResolvePath ==
    /\ phase = "path"
    /\ IF plan[idx].isNone
       THEN /\ idx' = idx + 1 /\ phase' = "reload" /\ todo' = <<>>
            /\ outcomeOf' = [outcomeOf EXCEPT ![idx] = "no_path"]
       ELSE /\ idx' = idx /\ phase' = "assets"
            /\ todo' = plan[idx].slots
            /\ outcomeOf' = outcomeOf
    /\ UNCHANGED <<Config, files, dirs, now, downloaded, skipped, transfers,
                   log, faults>>

\* the try block around the whole loop: an error ends the traversal
ItemErrorAborts ==
    /\ phase \in {"path", "assets"}
    /\ faults < MaxFaults
    /\ faults' = faults + 1
    /\ idx' = Len(library.items) + 1
    /\ phase' = "reload"
    /\ todo' = <<>>
    /\ outcomeOf' = [outcomeOf EXCEPT ![idx] = "error"]
    /\ UNCHANGED <<Config, files, dirs, now, downloaded, skipped, transfers,
                   log>>

\* no except clause: the error leaves main and the process dies
ItemErrorPropagates ==
    /\ phase \in {"path", "assets"}
    /\ faults < MaxFaults
    /\ faults' = faults + 1
    /\ phase' = "crashed"
    /\ outcomeOf' = [outcomeOf EXCEPT ![idx] = "error"]
    /\ UNCHANGED <<Config, files, dirs, now, downloaded, skipped, transfers,
                   log, idx, todo>>

\* anything raised inside the try block: `except Exception`, logged, next item
ItemError ==
    /\ phase \in {"path", "assets"}
    /\ faults < MaxFaults
    /\ faults' = faults + 1
    /\ idx' = idx + 1
    /\ phase' = "reload"
    /\ todo' = <<>>
    /\ outcomeOf' = [outcomeOf EXCEPT ![idx] = "error"]
    /\ UNCHANGED <<Config, files, dirs, now, downloaded, skipped, transfers,
                   log>>

\* the for loop is exhausted: the totals are reported
Finish ==
    /\ phase = "reload" /\ idx > Len(Items)
    /\ phase' = "done"
    /\ UNCHANGED <<Config, files, dirs, now, downloaded, skipped, idx, todo,
                   transfers, log, outcomeOf, faults>>

\* the catalog changes between two invocations: the first item is updated
UpstreamChange ==
    /\ phase = "done" /\ run = "first" /\ ~upstreamChanged
    /\ upstreamChanged' = TRUE
    /\ library' = [library EXCEPT !.items[1].updatedAt = now + Tolerance + 1]
    /\ plan' = Plan(library', assets)
    /\ UNCHANGED <<assets, force, output_path, files, dirs, now, downloaded,
                   skipped, run, idx, phase, todo, transfers, log, outcomeOf,
                   faults, firstFaults, firstClock>>

\* the program is invoked again with the same options: Plex.__init__
NextRun ==
    /\ phase = "done" /\ run = "first"
    /\ run' = "second"
    /\ downloaded' = 0
    /\ skipped' = 0
    /\ transfers' = 0
    /\ outcomeOf' = [i \in 1..Len(Items) |-> "-"]
    /\ idx' = 1
    /\ phase' = "reload"
    /\ todo' = <<>>
    /\ log' = <<>>
    /\ firstFaults' = faults
    /\ UNCHANGED <<library, assets, force, output_path, files, dirs, now,
                   faults, firstClock, upstreamChanged, plan>>

AllMediaFiles == <<AlphaFile, AlphaFile2, BetaFile, DeltaFile, Ep1File, Ep1File2,
                   Ep1File4k, Ep2File, OtherFile>>

Init ==
    /\ library \in Libraries
    /\ assets \in AssetChoices
    /\ force \in BOOLEAN
    /\ output_path \in OutputPaths
    /\ files = <<>>
    /\ dirs = MediaDirs(AllMediaFiles)
    /\ now \in {0, MaxClock}
    /\ downloaded = 0
    /\ skipped = 0
    /\ run = "first"
    /\ idx = 1
    /\ phase = "reload"
    /\ todo = <<>>
    /\ transfers = 0
    /\ log = <<>>
    /\ outcomeOf = [i \in 1..Len(Items) |-> "-"]
    /\ faults = 0
    /\ firstFaults = 0
    /\ firstClock = now
    /\ upstreamChanged = FALSE
    /\ plan = Plan(library, assets)

RunStep ==
    \/ ReloadOk
    \/ ReloadFails
    \/ ResolvePath
    \/ NoCall
    \/ \E mk \in BOOLEAN : SkipCurrent(mk)
    \/ \E mk \in BOOLEAN, t \in 0..MaxClock : TransferOk(mk, t)
    \/ \E mk \in BOOLEAN : TransferFalse(mk)
    \/ \E mk \in BOOLEAN : TransferNotFound(mk)
    \/ \E mk \in BOOLEAN : TransferError(mk)
    \/ ItemError
    \/ Finish

Next ==
    \/ RunStep
    \/ UpstreamChange
    \/ NextRun

Spec == Init /\ [][Next]_vars

\* the interpreter keeps executing main until the loop is over
FairSpec == Spec /\ WF_vars(RunStep)

\* ---------------------------------------------------------------- claims
LogIndex == 1..Len(log)

Count(outcome) == Cardinality({k \in LogIndex : log[k].outcome = outcome})

\* every updatedAt the catalog holds
CatalogTimestamps ==
    UNION {
        {Items[i].updatedAt}
        \cup {Items[i].seasons[s].updatedAt : s \in 1..Len(Items[i].seasons)}
        \cup UNION {
               {Items[i].seasons[s].episodes[e].updatedAt :
                    e \in 1..Len(Items[i].seasons[s].episodes)} :
               s \in 1..Len(Items[i].seasons)}
        : i \in 1..Len(Items)}

SecondRunIsAllSkip ==
    /\ transfers = 0
    /\ downloaded = 0
    /\ \A k \in LogIndex : log[k].outcome = "skipped"

\* the plan is the value of getPath and ItemSlots on the library as it is
PlanIsCurrent == plan = Plan(library, assets)

C2_Threshold ==
    \A k \in LogIndex :
        (log[k].existed /\ ~force /\ log[k].ts # NoneTs)
        => (log[k].outcome # "skipped" <=> log[k].ts > log[k].mtime + Tolerance)

C2_Witness ==
    /\ ~force
    /\ \E k \in LogIndex :
        /\ log[k].existed
        /\ log[k].ts = log[k].mtime + Tolerance
        /\ log[k].outcome = "skipped"
    /\ \E k \in LogIndex :
        /\ log[k].existed
        /\ log[k].ts > log[k].mtime + Tolerance + 1
        /\ log[k].outcome = "downloaded"

\* C3: a destination that does not exist is never skipped, whatever the force
\* flag and the timestamp.
C3_MissingFile ==
    \A k \in LogIndex : ~log[k].existed => log[k].outcome # "skipped"

C3_Witness ==
    /\ ~force
    /\ \E k \in LogIndex :
        ~log[k].existed /\ log[k].ts = NoneTs /\ log[k].outcome = "downloaded"
    /\ \E k \in LogIndex :
        ~log[k].existed /\ log[k].ts # NoneTs /\ log[k].outcome = "downloaded"

\* C4: with force set an existing destination is never skipped, whatever the
\* timestamp.
C4_Force ==
    \A k \in LogIndex : (log[k].existed /\ force) => log[k].outcome # "skipped"

C4_Witness ==
    /\ force
    /\ \E k \in LogIndex :
        log[k].existed /\ log[k].ts = NoneTs /\ log[k].outcome = "downloaded"
    /\ \E k \in LogIndex :
        /\ log[k].existed /\ log[k].ts # NoneTs /\ log[k].ts < log[k].mtime
        /\ log[k].outcome = "downloaded"

\* the attempt the step from this state to the next has made
Attempted == Len(log') = Len(log) + 1
Latest == log'[Len(log')]

\* C5: an attempt on an existing file without force and without a source
\* timestamp ends skipped: skipped grows by one, nothing is transferred.
C5_NoTimestamp ==
    [][(Attempted /\ Latest.existed /\ ~force /\ Latest.ts = NoneTs)
       => /\ Latest.outcome = "skipped"
          /\ skipped' = skipped + 1
          /\ transfers' = transfers
          /\ downloaded' = downloaded
          /\ files' = files]_vars

C5_Witness ==
    /\ ~force
    /\ skipped >= 1
    /\ \E k \in LogIndex :
        log[k].existed /\ log[k].ts = NoneTs /\ log[k].outcome = "skipped"

EmptyRefs == {"", "None", "NoAttr"}

\* C6: a step taken at a call site whose reference is empty or absent leaves
\* the filesystem, the transfer count and both counters as they were.
C6_EmptyReference ==
    [][(AtSite /\ Head(todo).ref \in EmptyRefs)
       => UNCHANGED <<files, dirs, downloaded, skipped, transfers, log>>]_vars

\* main has just passed the fanart site of an item whose art is '' under
\* --assets all, and nothing was recorded for it
C6_Witness ==
    /\ AtSite /\ assets = "all"
    /\ Head(todo).site = 3
    /\ Items[idx].art = ""
    /\ \A k \in LogIndex : ~(log[k].item = idx /\ log[k].site = 2)
    /\ \E k \in LogIndex : log[k].item = idx /\ log[k].site = 1

\* the sites of item i at which main calls download with a non-empty url
CalledSites(i) ==
    {k \in 1..Len(plan[i].slots) : Called(plan[i].slots[k])}

\* C7: when an item raised, the run still gets to every item, every item that
\* ended normally had all its calls made, and the counters are the numbers
\* of attempts that ended downloaded and skipped.
C7_ErrorIsolation ==
    (\E i \in 1..Len(Items) : outcomeOf[i] = "error")
    => /\ downloaded = Count("downloaded")
       /\ skipped = Count("skipped")
       /\ \A i \in 1..Len(Items) :
            outcomeOf[i] = "ok"
            => \A site \in CalledSites(i) :
                 \E k \in LogIndex : log[k].item = i /\ log[k].site = site
       /\ phase = "done" => \A i \in 1..Len(Items) : outcomeOf[i] # "-"

C7_Witness ==
    /\ phase = "done"
    /\ outcomeOf[1] = "error"
    /\ \E k \in LogIndex : log[k].item = 1 /\ log[k].outcome = "downloaded"
    /\ \E k \in LogIndex : log[k].item = 2 /\ log[k].outcome = "downloaded"
    /\ outcomeOf[2] = "ok"
    /\ downloaded >= 3

\* C8: a run that has started reaches the end of the loop.
C8_RunCompletes == (phase # "done") ~> (phase = "done")

C8_Witness ==
    /\ phase = "done"
    /\ faults = MaxFaults
    /\ \E i \in 1..Len(Items) : outcomeOf[i] \in {"error", "reload_failed"}
    /\ \E i \in 1..Len(Items) : outcomeOf[i] = "no_path"
    /\ \E i \in 1..Len(Items) : outcomeOf[i] = "ok"

\* C9: a failed transfer changes neither counter and no file, is one
\* invocation of the primitive, and main moves to the next call site of the
\* same item; no call site is attempted twice in a run.
C9_TransferFailure ==
    /\ [][(Attempted /\ Latest.outcome = "failed")
          => /\ downloaded' = downloaded
             /\ skipped' = skipped
             /\ files' = files
             /\ transfers' = transfers + 1
             /\ todo' = Tail(todo)
             /\ Tail(todo) # <<>> => (idx' = idx /\ phase' = "assets")]_vars
    /\ [](\A j, k \in LogIndex :
            (log[j].item = log[k].item /\ log[j].site = log[k].site) => j = k)

C9_Witness ==
    \E k \in LogIndex :
        /\ log[k].outcome = "failed"
        /\ k < Len(log)
        /\ log[k + 1].item = log[k].item
        /\ log[k + 1].outcome = "downloaded"
        /\ downloaded + skipped = Len(log) - 1

\* the first media part of an episode, in the order of the catalog
FirstPart(i, node) == Flatten(Items[i].seasons[node[1]].episodes[node[2]].media)[1]

\* C10: an episode gets at most one attempt in a run, and it is the one named
\* after its first media part, in that part's directory.
C10_OneThumbPerEpisode ==
    \A j, k \in LogIndex :
        (log[j].node[2] # 0 /\ log[j].item = log[k].item /\ log[j].node = log[k].node)
        => /\ j = k
           /\ log[j].file =
                FinalFilePath(output_path, dirname(FirstPart(log[j].item, log[j].node)),
                    splitextRoot(basename(FirstPart(log[j].item, log[j].node)))
                        \o <<"-thumb", ".", "jpg">>)

\* a timestamp that is there: the attribute exists and is not None
Present(t) == t # NoneTs /\ t # NoAttrTs

\* the most specific timestamp the catalog has for a node of item i: the
\* node's own, else its season's, else the item's
MostSpecific(i, node) ==
    LET item_ts == Items[i].updatedAt
        season_ts == Items[i].seasons[node[1]].updatedAt
        episode_ts == Items[i].seasons[node[1]].episodes[node[2]].updatedAt
    IN  IF node[1] = 0 THEN item_ts
        ELSE IF node[2] = 0
        THEN IF Present(season_ts) THEN season_ts ELSE item_ts
        ELSE IF Present(episode_ts) THEN episode_ts
        ELSE IF Present(season_ts) THEN season_ts
        ELSE item_ts

\* the log is of the catalog as it is now
LogIsOfCatalog == ~upstreamChanged \/ run = "second"

\* C11: the timestamp passed with every attempt is the most specific one the
\* catalog has for the node: the episode's, else the season's, else the
\* item's; a None is never passed on while a less specific level has one.
C11_TimestampFallback ==
    LogIsOfCatalog
    => \A k \in LogIndex : log[k].ts = MostSpecific(log[k].item, log[k].node)

\* the asset kind a destination file belongs to, by its name
KindOfFile(f) ==
    LET name == basename(f)
    IN  IF name \in {<<"poster", ".", "jpg">>, <<"folder", ".", "jpg">>}
        THEN "posters"
        ELSE IF Len(name) > 3
                /\ SubSeq(name, Len(name) - 2, Len(name)) = <<"-thumb", ".", "jpg">>
        THEN "posters"
        ELSE IF name = <<"fanart", ".", "jpg">> THEN "backgrounds"
        ELSE IF name = <<"banner", ".", "jpg">> THEN "banners"
        ELSE IF name = <<"theme", ".", "mp3">> THEN "themes"
        ELSE "unknown"

LoggedSite(i, site) == \E k \in LogIndex : log[k].item = i /\ log[k].site = site

\* C12: every attempt is for a file of a kind --assets allows, seasons and
\* episodes are attempted only under all or posters, and an item that was
\* gone through had every allowed call site with a non-empty reference
\* attempted (the call sites are those of nodes that have a directory).
C12_AssetFilter ==
    /\ \A k \in LogIndex :
         /\ assets \in {"all", KindOfFile(log[k].file)}
         /\ log[k].node # <<0, 0>> => assets \in {"all", "posters"}
    /\ \A i \in 1..Len(Items) :
         outcomeOf[i] = "ok"
         => \A site \in 1..Len(plan[i].slots) :
              (/\ assets \in {"all", plan[i].slots[site].kind}
               /\ plan[i].slots[site].ref \notin EmptyRefs)
              => LoggedSite(i, site)

\* a show gone through under --assets posters: its poster, a season poster
\* and an episode thumbnail were attempted, its banner was not
C12_Witness ==
    /\ assets = "posters" /\ library.type = "show"
    /\ phase = "done" /\ outcomeOf[1] = "ok"
    /\ Items[1].banner \notin EmptyRefs
    /\ \E k \in LogIndex : basename(log[k].file) = <<"poster", ".", "jpg">>
    /\ \E k \in LogIndex : basename(log[k].file) = <<"folder", ".", "jpg">>
    /\ \E k \in LogIndex : log[k].node[2] # 0 /\ KindOfFile(log[k].file) = "posters"
    /\ \A k \in LogIndex : KindOfFile(log[k].file) = "posters"

\* one level up: the path without its last component
Parent(p) ==
    LET cut == rfind(p, "/")
    IN  IF cut <= 1 THEN SubSeq(p, 1, cut) ELSE SubSeq(p, 1, cut - 1)

\* the media parts of the first episode of a show or season
FirstEpisodeParts(node) ==
    IF Episodes(node) = <<>> THEN <<>> ELSE Flatten(Episodes(node)[1].media)

\* the first media part found going through the episodes in order
FirstPartFound(node) ==
    LET eps == Episodes(node)
        has == {e \in 1..Len(eps) : Flatten(eps[e].media) # <<>>}
    IN  IF has = {} THEN <<>>
        ELSE Flatten(eps[CHOOSE e \in has : \A d \in has : e <= d].media)

\* the directory `levels` up from the first of parts, None without parts
DirAbove(parts, levels) ==
    IF parts = <<>> THEN NoPath
    ELSE IF levels = 1 THEN SomePath(Parent(parts[1]))
    ELSE SomePath(Parent(Parent(parts[1])))

\* what main got from getPath for item i and for its season s, as the plan
\* of the traversal holds it
ItemPathIs(i, expected) ==
    /\ plan[i].isNone = expected.isNone
    /\ ~expected.isNone => plan[i].slots[1].path = expected.val

SeasonPathIs(i, s, expected) ==
    ~plan[i].isNone
    => /\ expected.isNone <=> \A k \in 1..Len(plan[i].slots) :
                                 plan[i].slots[k].node # <<s, 0>>
       /\ \A k \in 1..Len(plan[i].slots) :
            plan[i].slots[k].node = <<s, 0>>
            => plan[i].slots[k].path = expected.val

\* C13 as stated: for a show getPath is two levels up from the first
\* episode's first media part, for a season one level up, None when the
\* first episode has no part.
C13_AsStated ==
    library.type = "show"
    => \A i \in 1..Len(Items) :
         /\ ItemPathIs(i, DirAbove(FirstEpisodeParts(Items[i]), 2))
         /\ \A s \in 1..Len(Items[i].seasons) :
              SeasonPathIs(i, s, DirAbove(FirstEpisodeParts(Items[i].seasons[s]), 1))

\* C13, amended: for a show getPath is two levels up from the first media
\* part found going through the episodes in order, for a season one level
\* up, None when no episode has a part.
C13_PathResolution ==
    library.type = "show"
    => \A i \in 1..Len(Items) :
         /\ ItemPathIs(i, DirAbove(FirstPartFound(Items[i]), 2))
         /\ \A s \in 1..Len(Items[i].seasons) :
              SeasonPathIs(i, s, DirAbove(FirstPartFound(Items[i].seasons[s]), 1))

\* main has resolved the second show, whose first episode has no media: the
\* show directory and the season directory come from the second episode
C13_Witness ==
    /\ library.type = "show" /\ idx = 2 /\ phase = "assets"
    /\ todo = plan[2].slots
    /\ FirstEpisodeParts(Items[2]) = <<>>
    /\ todo[1].path = <<"/", "media", "/", "Other">>
    /\ \E k \in 1..Len(todo) :
         /\ todo[k].node = <<1, 0>>
         /\ todo[k].path = <<"/", "media", "/", "Other", "/", "Season 01">>
    /\ \A k \in 1..Len(plan[1].slots) : plan[1].slots[k].node[1] # 2

\* a path without its leading separators
RECURSIVE StripLeading(_)
StripLeading(p) ==
    IF p # <<>> /\ Head(p) = "/" THEN StripLeading(Tail(p)) ELSE p

\* the call site an entry of the log was made at
SiteOf(entry) == plan[entry.item].slots[entry.site]

\* the destination directory of a resolved directory under --output-path
EffectiveDir(path) ==
    IF output_path = <<"/">> THEN path
    ELSE output_path \o <<"/">> \o StripLeading(path)

\* C14: every attempt's file is the effective directory, a separator and the
\* fixed filename, where the effective directory is the resolved directory
\* itself without an override, and otherwise the override, a separator and
\* the resolved directory without its leading separators.
C14_OutputPath ==
    \A k \in LogIndex :
        log[k].file = EffectiveDir(SiteOf(log[k]).path) \o <<"/">>
                        \o SiteOf(log[k]).filename

\* under /backup the season poster of /media/Show/Season 01 was written to
\* /backup/media/Show/Season 01/folder.jpg
C14_Witness ==
    /\ output_path = <<"/", "backup">>
    /\ \E k \in LogIndex :
         /\ SiteOf(log[k]).path = <<"/", "media", "/", "Show", "/", "Season 01">>
         /\ log[k].file = <<"/", "backup", "/", "media", "/", "Show", "/",
                            "Season 01", "/", "folder", ".", "jpg">>
         /\ log[k].outcome = "downloaded"
         /\ log[k].file \in DOMAIN files

\* the items of this run whose reload failed
ReloadFailed == {i \in 1..Len(Items) : outcomeOf[i] = "reload_failed"}

\* C15: the step in which an item's reload fails changes neither counter, no
\* file and makes no attempt, and leaves main at the reload of the next item;
\* no attempt is ever made for such an item, and the items after it are
\* still gone through.
C15_RefreshFailure ==
    /\ [][(run' = run /\ ReloadFailed' # ReloadFailed)
          => /\ UNCHANGED <<downloaded, skipped, transfers, files, dirs, log>>
             /\ idx' = idx + 1
             /\ phase' = "reload"
             /\ ReloadFailed' = ReloadFailed \cup {idx}]_vars
    /\ [](\A k \in LogIndex : log[k].item \notin ReloadFailed)
    /\ []((ReloadFailed # {} /\ phase = "done")
           => \A i \in 1..Len(Items) : outcomeOf[i] # "-")

\* the first item's reload failed, the second item was gone through
C15_Witness ==
    /\ phase = "done"
    /\ outcomeOf[1] = "reload_failed"
    /\ outcomeOf[2] = "ok"
    /\ \A k \in LogIndex : log[k].item # 1
    /\ \E k \in LogIndex : log[k].item = 2 /\ log[k].outcome = "downloaded"
    /\ downloaded = Count("downloaded")

\* C16: an attempt whose os.makedirs failed still takes the staleness
\* decision and, on go, invokes the transfer primitive once; main then goes
\* on with the next call site of the same item.  A call that main makes
\* always ends as an attempt unless something else raises.
C16_MakedirsBestEffort ==
    /\ [][(Attempted /\ Latest.mkfailed)
          => /\ Latest.outcome \in {"skipped", "downloaded", "failed"}
             /\ Latest.outcome = "skipped"
                  <=> ~ShouldDownload(Latest.existed, Latest.mtime, force, Latest.ts)
             /\ Latest.outcome # "skipped" => transfers' = transfers + 1
             /\ todo' = Tail(todo)
             /\ outcomeOf'[idx] # "error"
             /\ Tail(todo) # <<>> => (idx' = idx /\ phase' = "assets")]_vars
    /\ [][(AtSite /\ Called(Head(todo)) /\ todo' # todo
           /\ outcomeOf'[idx] # "error")
          => Attempted]_vars

\* the directory under /backup could not be made, the file was transferred
\* all the same and main went on to the item's next asset
C16_Witness ==
    \E k \in LogIndex :
        /\ log[k].mkfailed
        /\ log[k].outcome = "downloaded"
        /\ log[k].file \in DOMAIN files
        /\ k < Len(log)
        /\ log[k + 1].item = log[k].item

\* C17: within a run the counters are non-negative and never decrease; an
\* attempt adds one to exactly one of them when it ends downloaded or
\* skipped and nothing when it fails, and no other step changes them; so
\* their sum is at most the number of attempts, and equal to it exactly when
\* none has failed.
C17_CounterAccounting ==
    /\ [](/\ downloaded >= 0 /\ skipped >= 0
          /\ downloaded = Count("downloaded")
          /\ skipped = Count("skipped")
          /\ downloaded + skipped <= Len(log)
          /\ downloaded + skipped = Len(log) <=> Count("failed") = 0)
    /\ [][run' = run
          => /\ downloaded' >= downloaded /\ skipped' >= skipped
             /\ ~Attempted => (downloaded' = downloaded /\ skipped' = skipped)
             /\ (Attempted /\ Latest.outcome = "downloaded")
                  => (downloaded' = downloaded + 1 /\ skipped' = skipped)
             /\ (Attempted /\ Latest.outcome = "skipped")
                  => (downloaded' = downloaded /\ skipped' = skipped + 1)
             /\ (Attempted /\ Latest.outcome = "failed")
                  => (downloaded' = downloaded /\ skipped' = skipped)]_vars

\* a finished run with downloads, skips and one failed attempt
C17_Witness ==
    /\ phase = "done"
    /\ Count("failed") = 1
    /\ downloaded >= 1 /\ skipped >= 1
    /\ Len(log) = downloaded + skipped + 1

\* attempt j wrote the file that the later attempt k, of another node, found
WroteFor(j, k) ==
    /\ j < k
    /\ log[j].file = log[k].file
    /\ <<log[j].item, log[j].node>> # <<log[k].item, log[k].node>>
    /\ log[j].outcome = "downloaded"
    /\ \A m \in (j + 1)..(k - 1) :
         ~(log[m].file = log[k].file /\ log[m].outcome = "downloaded")

\* C18: without force, an attempt on a file that an earlier attempt of the
\* same run, for another node, has downloaded finds that file with the time
\* it was written at, and ends skipped, with no transfer, unless its source
\* timestamp is more than Tolerance later than that time.
C18_SharedDestination ==
    ~force
    => /\ \A j, k \in LogIndex :
            WroteFor(j, k)
            => /\ log[k].existed
               /\ log[k].mtime = log[j].written
               /\ log[k].outcome = "skipped"
                    <=> ~(/\ log[k].ts # NoneTs
                          /\ log[k].ts > log[j].written + Tolerance)
       /\ transfers = Len(log) - Count("skipped")

\* two movies in one directory: the second one's poster.jpg is skipped, its
\* timestamp being exactly Tolerance later than the first one's download
C18_Witness ==
    /\ ~force /\ run = "first" /\ library.type = "movie"
    /\ \E j, k \in LogIndex :
         /\ WroteFor(j, k)
         /\ log[j].item = 1 /\ log[k].item = 2
         /\ log[k].ts = log[j].written + Tolerance
         /\ log[k].outcome = "skipped"
         /\ transfers = k - 1

\* C19: in a run with force, skipped is 0 in every state, no attempt ends
\* skipped, and the transfer primitive has been invoked once per attempt.
C19_ForceNeverSkips ==
    force
    => /\ skipped = 0
       /\ \A k \in LogIndex : log[k].outcome # "skipped"
       /\ transfers = Len(log)

\* a finished second run with force: files that were current, and one
\* without a source timestamp, were transferred again
C19_Witness ==
    /\ force /\ run = "second" /\ phase = "done"
    /\ transfers >= 3 /\ skipped = 0
    /\ \E k \in LogIndex :
         /\ log[k].existed /\ log[k].ts # NoneTs
         /\ log[k].ts <= log[k].mtime + Tolerance
         /\ log[k].outcome = "downloaded"
    /\ \E k \in LogIndex :
         log[k].existed /\ log[k].ts = NoneTs /\ log[k].outcome = "downloaded"

====
